---- MODULE Spec2Model ----
(***************************************************************************)
(* Model of the 2048 widget of src/index.tsx (the TypeScript App, lines    *)
(* 59-280): the React state of App (board, score, bestScore, isGameOver,   *)
(* isWin, touchStart), the localStorage slot of the best score, and the    *)
(* handlers startGame, move (with everything they call: getGrid, rotate,   *)
(* the slide/merge loop, addRandomTile, transformToTileObjects,            *)
(* checkGameOver), handleKeyDown and the three touch handlers.             *)
(* Tile ids and the isNew/isMerged animation flags are not part of the     *)
(* state: nothing but the renderer reads them.  The merged-cell tracking   *)
(* of line 173 is modelled for its one effect on the game: the exception   *)
(* it raises.                                                              *)
(*                                                                         *)
(* Grids are 1-based sequences of rows; grid[r+1][c+1] is the code's       *)
(* grid[r][c].  Tiles keep the code's 0-based x (column) and y (row).      *)
(***************************************************************************)
EXTENDS Integers, Sequences, FiniteSets

VARIABLES board, score, bestScore, isGameOver, isWin, stored, last, steps,
          touchStart, fingers, gesture

vars == <<board, score, bestScore, isGameOver, isWin, stored, last, steps,
          touchStart, fingers, gesture>>

\* the touch state: touchStart of App, the number of touch points on the
\* screen, and the history of the current gesture
touchVars == <<touchStart, fingers, gesture>>

TILE_COUNT == 4

\* Number of handler invocations explored from an initial state.
MaxSteps == 1

Directions == {"up", "down", "left", "right"}

Idx == 1..TILE_COUNT

EmptyGrid == [r \in Idx |-> [c \in Idx |-> 0]]

(***************************************************************************)
(* JavaScript numbers: an integer or NaN.  bestScore is the only state     *)
(* that can be NaN (parseInt of an unparseable stored string).             *)
(***************************************************************************)
Num(n) == [nan |-> FALSE, val |-> n]

NaN == [nan |-> TRUE, val |-> 0]

\* JavaScript a > b for an integer a and a number b: false when b is NaN.
GreaterThan(a, b) == (~b.nan) /\ a > b.val

(***************************************************************************)
(* Strings of the localStorage slot are sequences of one-character         *)
(* strings.  The slot is a set: empty when the key is absent, else holding *)
(* the one stored string.                                                  *)
(***************************************************************************)
Digits == <<"0", "1", "2", "3", "4", "5", "6", "7", "8", "9">>

DigitValue(ch) == (CHOOSE k \in 1..10 : Digits[k] = ch) - 1

IsDigit(ch) == \E k \in 1..10 : Digits[k] = ch

RECURSIVE NatToString(_)
NatToString(n) ==
    IF n < 10 THEN <<Digits[n + 1]>>
    ELSE NatToString(n \div 10) \o <<Digits[(n % 10) + 1]>>

\* Number.prototype.toString for an integer
toString(n) == IF n < 0 THEN <<"-">> \o NatToString(-n) ELSE NatToString(n)

RECURSIVE DigitPrefixValue(_, _, _)
\* value of the longest run of digits of s starting at index i, acc so far
DigitPrefixValue(s, i, acc) ==
    IF i > Len(s) \/ ~IsDigit(s[i]) THEN acc
    ELSE DigitPrefixValue(s, i + 1, acc * 10 + DigitValue(s[i]))

RECURSIVE SkipSpaces(_, _)
SkipSpaces(s, i) ==
    IF i <= Len(s) /\ s[i] = " " THEN SkipSpaces(s, i + 1) ELSE i

\* parseInt(s): leading blanks, an optional sign, then the longest digit
\* prefix; NaN when there is no digit there
ParseInt(s) ==
    LET i == SkipSpaces(s, 1)
        neg == i <= Len(s) /\ s[i] = "-"
        j == IF i <= Len(s) /\ s[i] \in {"-", "+"} THEN i + 1 ELSE i
    IN  IF j > Len(s) \/ ~IsDigit(s[j]) THEN NaN
        ELSE LET v == DigitPrefixValue(s, j, 0)
             IN  Num(IF neg THEN -v ELSE v)

\* localStorage.getItem(BEST_SCORE_KEY) || '0'
StoredOrZero(slot) ==
    IF slot = {} THEN <<"0">>
    ELSE LET s == CHOOSE t \in slot : TRUE
         IN  IF s = <<>> THEN <<"0">> ELSE s

\* the initializer of the bestScore state
InitialBestScore(slot) == ParseInt(StoredOrZero(slot))

(***************************************************************************)
(* Board <-> grid                                                          *)
(***************************************************************************)
Cells(grid) ==
    [k \in 1..(TILE_COUNT * TILE_COUNT) |->
        [value |-> grid[((k - 1) \div TILE_COUNT) + 1][((k - 1) % TILE_COUNT) + 1],
         x |-> (k - 1) % TILE_COUNT,
         y |-> (k - 1) \div TILE_COUNT]]

IsTile(t) == t.value # 0

\* the tiles of the non-zero cells, row by row
transformToTileObjects(grid) == SelectSeq(Cells(grid), IsTile)

\* a zero grid overwritten by each tile in turn: the last tile of a cell wins
getGrid(b) ==
    [r \in Idx |-> [c \in Idx |->
        LET hits == {i \in 1..Len(b) : b[i].y = r - 1 /\ b[i].x = c - 1}
        IN  IF hits = {} THEN 0
            ELSE b[CHOOSE i \in hits : \A j \in hits : j <= i].value]]

emptyCells(grid) == {rc \in Idx \X Idx : grid[rc[1]][rc[2]] = 0}

\* grid[r][c] = v
SetCell(grid, rc, v) ==
    [grid EXCEPT ![rc[1]][rc[2]] = v]

\* The grids addRandomTile can return: one empty cell set to 2 or 4, or the
\* grid itself when it has no empty cell.
\* a spawn of 2 or 3
SpawnValuesTwoOrThree == {2, 3}

SpawnValues == {2, 4}

\* addRandomTile picking among all cells instead of the empty ones
addRandomTileAnyCell(grid) ==
    {SetCell(grid, rc, v) : rc \in Idx \X Idx, v \in SpawnValues}

addRandomTile(grid) ==
    IF emptyCells(grid) = {} THEN {grid}
    ELSE {SetCell(grid, rc, v) : rc \in emptyCells(grid), v \in SpawnValues}

\* createInitialBoard with one call of addRandomTile
createInitialBoardOnce ==
    {transformToTileObjects(g1) : g1 \in addRandomTile(EmptyGrid)}

\* createInitialBoard: two tiles added to a zero grid
createInitialBoard ==
    {transformToTileObjects(g2) :
        g2 \in UNION {addRandomTile(g1) : g1 \in addRandomTile(EmptyGrid)}}

(***************************************************************************)
(* The move engine (move, lines 136-204)                                   *)
(***************************************************************************)
rotations(direction) ==
    CASE direction = "up" -> 1
      [] direction = "right" -> 2
      [] direction = "down" -> 3
      [] direction = "left" -> 0

\* one pass of the loop body of rotate: newGrid[r][c] = g[TILE_COUNT-1-c][r]
\* one pass reading g[TILE_COUNT - 1 - c][c] instead of [r]
rotateOnceColumnIndex(g) ==
    [r \in Idx |-> [c \in Idx |-> g[TILE_COUNT + 1 - c][c]]]

rotateOnce(g) ==
    [r \in Idx |-> [c \in Idx |-> g[TILE_COUNT + 1 - c][r]]]

RECURSIVE rotate(_, _)
rotate(grid, times) ==
    IF times = 0 THEN grid ELSE rotate(rotateOnce(grid), times - 1)

\* rotate raises a TypeError when a pass reads a row the array does not
\* have: g[TILE_COUNT-1-c] is undefined and is then indexed by [r].  After
\* the first pass the array is TILE_COUNT rows long.
rotateThrows(grid, times) ==
    times > 0 /\ \E c \in Idx : TILE_COUNT + 1 - c > Len(grid)

\* currentGrid[r].filter(cell => cell !== 0)
NonZero(cell) == cell # 0

\* filterRow dropping only the first empty cell of the row
filterRowFirstZero(cells) ==
    LET zeros == {i \in 1..Len(cells) : ~NonZero(cells[i])}
        z == CHOOSE i \in zeros : \A j \in zeros : i <= j
    IN  IF zeros = {} THEN cells
        ELSE SubSeq(cells, 1, z - 1) \o SubSeq(cells, z + 1, Len(cells))

filterRow(cells) == SelectSeq(cells, NonZero)

\* afterMerge without the i++ of line 175: the merged pair's second tile is
\* scanned again
afterMergeNoSkip(i) == i + 1

\* the scan index after a merge at i: the i++ of line 175 and the loop's own
afterMerge(i) == i + 2

RECURSIVE mergeFrom(_, _)
\* newRow as built by the scan of lines 165-179 from index i (1-based) on
mergeFrom(row, i) ==
    IF i > Len(row) THEN <<>>
    ELSE IF i + 1 <= Len(row) /\ row[i] = row[i + 1]
         THEN <<row[i] * 2>> \o mergeFrom(row, afterMerge(i))
         ELSE <<row[i]>> \o mergeFrom(row, i + 1)

RECURSIVE mergedFrom(_, _)
\* the newValue of every merge of that scan, in order
mergedFrom(row, i) ==
    IF i > Len(row) THEN <<>>
    ELSE IF i + 1 <= Len(row) /\ row[i] = row[i + 1]
         THEN <<row[i] * 2>> \o mergedFrom(row, afterMerge(i))
         ELSE mergedFrom(row, i + 1)

\* newRow.concat(Array(TILE_COUNT - newRow.length).fill(0))
paddedRow(newRow) ==
    newRow \o [k \in 1..(TILE_COUNT - Len(newRow)) |-> 0]

\* one row of the rotated grid through lines 163-181
slideRow(cells) == paddedRow(mergeFrom(filterRow(cells), 1))

\* the rotated grid after the loop of lines 162-186
slideGrid(rot) == [r \in Idx |-> slideRow(rot[r])]

\* moved set on every move
wasMovedAlways(rot) == TRUE

\* moved: some row's join(',') differs from its padded row's
wasMoved(rot) == \E r \in Idx : rot[r] # slideRow(rot[r])

\* the newValues of all merges of the move, rows in order
mergedValues(rot) ==
    mergedFrom(filterRow(rot[1]), 1) \o mergedFrom(filterRow(rot[2]), 1)
        \o mergedFrom(filterRow(rot[3]), 1) \o mergedFrom(filterRow(rot[4]), 1)

RECURSIVE SumSeq(_)
SumSeq(s) == IF s = <<>> THEN 0 ELSE Head(s) + SumSeq(Tail(s))

\* scoreToAdd counting the merges instead of adding their values
scoreToAddCount(merges) == Len(merges)

\* scoreToAdd after the loop
scoreToAdd(merges) == SumSeq(merges)

\* line 170 never calling setIsWin
reachesWinNever(newValue) == FALSE

\* line 170: if (newValue === 2048) setIsWin(true)
reachesWin(newValue) == newValue = 2048

\* line 173: the merged cell [r, newRow.length - 1] is handed to rotate as a
\* one-row grid, to be rotated (4 - numRotations) % 4 times
trackThrows(numRotations) ==
    rotateThrows(<<<<0, 0>>>>, (4 - numRotations) % 4)

\* checkGameOver without the comparison of line 210 (the cell below)
checkGameOverRowsOnly(grid) ==
    \A r \in Idx : \A c \in Idx :
        /\ grid[r][c] # 0
        /\ ~(c < TILE_COUNT /\ grid[r][c] = grid[r][c + 1])

\* checkGameOver never reaching setIsGameOver(true)
checkGameOverNever(grid) == FALSE

\* checkGameOver reaches setIsGameOver(true)
checkGameOver(grid) ==
    \A r \in Idx : \A c \in Idx :
        /\ grid[r][c] # 0
        /\ ~(r < TILE_COUNT /\ grid[r][c] = grid[r + 1][c])
        /\ ~(c < TILE_COUNT /\ grid[r][c] = grid[r][c + 1])

\* the best score set to every new score, without the test of line 198
bestAfterAlways(newScore, best) == Num(newScore)

\* lines 198-201: the best score after a move that reached newScore
bestAfter(newScore, best) ==
    IF GreaterThan(newScore, best) THEN Num(newScore) ELSE best

\* lines 198-201: the localStorage slot after such a move
storedAfter(newScore, best, slot) ==
    IF GreaterThan(newScore, best) THEN {toString(newScore)} ELSE slot

(***************************************************************************)
(* Sessions the model starts from.  The first three are the state after    *)
(* mounting (useState initializers, then the mount effect's startGame).    *)
(* The others are states of games in progress; each was reached by running *)
(* the handlers of this file from a new game, with spawns and directions   *)
(* chosen to get there (up to 1340 moves), and carries the score of that    *)
(* game.  Its best score is the one a first session has (it follows the    *)
(* score) or an older, higher one.                                         *)
(***************************************************************************)
\* a new game in a browser that never stored a best score
NewGameFirst ==
    [grid |-> <<<<2, 0, 2, 0>>,
               <<0, 0, 0, 0>>,
               <<0, 0, 0, 0>>,
               <<0, 0, 0, 0>>>>,
     score |-> 0, bestScore |-> InitialBestScore({}), stored |-> {},
     isWin |-> FALSE, isGameOver |-> FALSE]

\* a new game after a session that left best score 392
NewGameReturning ==
    [grid |-> <<<<0, 4, 0, 0>>,
               <<0, 0, 0, 0>>,
               <<0, 4, 0, 0>>,
               <<0, 0, 0, 0>>>>,
     score |-> 0, bestScore |-> InitialBestScore({<<"3", "9", "2">>}),
     stored |-> {<<"3", "9", "2">>},
     isWin |-> FALSE, isGameOver |-> FALSE]

\* a new game when the slot holds the text abc
NewGameUnparseable ==
    [grid |-> <<<<0, 0, 0, 0>>,
               <<0, 2, 4, 0>>,
               <<0, 0, 0, 0>>,
               <<0, 0, 0, 0>>>>,
     score |-> 0, bestScore |-> InitialBestScore({<<"a", "b", "c">>}),
     stored |-> {<<"a", "b", "c">>},
     isWin |-> FALSE, isGameOver |-> FALSE]

\* 9 moves into a first game, no merge yet; last row 2,2,2,2
EarlyFours ==
    [grid |-> <<<<2, 0, 0, 0>>,
               <<0, 2, 2, 2>>,
               <<0, 4, 4, 4>>,
               <<2, 2, 2, 2>>>>,
     score |-> 0, bestScore |-> Num(0), stored |-> {},
     isWin |-> FALSE, isGameOver |-> FALSE]

\* 9 moves into a first game, no merge yet; a row 2,2,4,0
EarlyPairs ==
    [grid |-> <<<<2, 2, 0, 0>>,
               <<4, 4, 0, 0>>,
               <<2, 2, 4, 0>>,
               <<4, 4, 2, 4>>>>,
     score |-> 0, bestScore |-> Num(0), stored |-> {},
     isWin |-> FALSE, isGameOver |-> FALSE]

\* a full grid of strictly decreasing rows with equal vertical neighbours
PackedRows ==
    [grid |-> <<<<32, 16, 4, 2>>,
               <<16, 8, 4, 2>>,
               <<32, 16, 8, 4>>,
               <<16, 8, 4, 2>>>>,
     score |-> 392, bestScore |-> Num(392), stored |-> {<<"3", "9", "2">>},
     isWin |-> FALSE, isGameOver |-> FALSE]

\* one move before the game below is lost
BeforeLost ==
    [grid |-> <<<<2, 128, 4, 2>>,
               <<0, 16, 8, 4>>,
               <<8, 2, 4, 2>>,
               <<16, 4, 2, 4>>>>,
     score |-> 784, bestScore |-> Num(784), stored |-> {<<"7", "8", "4">>},
     isWin |-> FALSE, isGameOver |-> FALSE]

\* a lost game
LostGame ==
    [grid |-> <<<<4, 128, 4, 2>>,
               <<2, 16, 8, 4>>,
               <<8, 2, 4, 2>>,
               <<16, 4, 2, 4>>>>,
     score |-> 784, bestScore |-> Num(784), stored |-> {<<"7", "8", "4">>},
     isWin |-> FALSE, isGameOver |-> TRUE]

\* two 1024 tiles side by side in a row
BeforeWin ==
    [grid |-> <<<<2, 0, 8, 2>>,
               <<0, 1024, 1024, 64>>,
               <<0, 32, 8, 4>>,
               <<8, 2, 2, 16>>>>,
     score |-> 17352, bestScore |-> Num(17352), stored |-> {<<"1", "7", "3", "5", "2">>},
     isWin |-> FALSE, isGameOver |-> FALSE]

\* two 1024 tiles one above the other; an older best score
BeforeWinVertical ==
    [grid |-> <<<<4, 1024, 8, 2>>,
               <<32, 1024, 64, 2>>,
               <<4, 8, 4, 0>>,
               <<8, 4, 2, 16>>>>,
     score |-> 17356, bestScore |-> Num(20000), stored |-> {<<"2", "0", "0", "0", "0">>},
     isWin |-> FALSE, isGameOver |-> FALSE]

\* a won game one move before the grid below
WonFilling ==
    [grid |-> <<<<8, 2, 64, 2>>,
               <<4, 2048, 8, 4>>,
               <<2, 32, 16, 2>>,
               <<8, 4, 0, 4>>>>,
     score |-> 19404, bestScore |-> Num(19404), stored |-> {<<"1", "9", "4", "0", "4">>},
     isWin |-> TRUE, isGameOver |-> FALSE]

\* a won game whose grid has no move left
WonGameOver ==
    [grid |-> <<<<8, 2, 4, 2>>,
               <<4, 2048, 64, 4>>,
               <<2, 32, 8, 2>>,
               <<8, 4, 16, 4>>>>,
     score |-> 19404, bestScore |-> Num(19404), stored |-> {<<"1", "9", "4", "0", "4">>},
     isWin |-> TRUE, isGameOver |-> TRUE]

\* a won game with two 2048 tiles side by side in a row
BeforeSuper ==
    [grid |-> <<<<2, 2, 0, 0>>,
               <<128, 0, 0, 0>>,
               <<2048, 2048, 0, 0>>,
               <<8, 8, 4, 4>>>>,
     score |-> 38632, bestScore |-> Num(38632), stored |-> {<<"3", "8", "6", "3", "2">>},
     isWin |-> TRUE, isGameOver |-> FALSE]

Sessions ==
    {NewGameFirst,
     NewGameReturning,
     NewGameUnparseable,
     EarlyFours,
     EarlyPairs,
     PackedRows,
     BeforeLost,
     LostGame,
     BeforeWin,
     BeforeWinVertical,
     WonFilling,
     WonGameOver,
     BeforeSuper}

(***************************************************************************)
(* History of the last handler run, for stating what a handler did.        *)
(* grid0..over0 are the state the handler read; rot is the rotated grid    *)
(* entering the slide loop, rowsOut the rotated grid leaving it, slid the  *)
(* grid after rotating back (line 188), merges the newValues of the merges *)
(* made, add the scoreToAdd.  Fields a handler does not reach keep their   *)
(* blank value.                                                            *)
(***************************************************************************)
NoLast ==
    [op |-> "none", dir |-> "-", outcome |-> "-",
     grid0 |-> EmptyGrid, score0 |-> 0, best0 |-> Num(0),
     win0 |-> FALSE, over0 |-> FALSE,
     rot |-> EmptyGrid, rowsOut |-> EmptyGrid, slid |-> EmptyGrid,
     merges |-> <<>>, add |-> 0]

(***************************************************************************)
(* History of the current swipe gesture.  ev is the last touch handler     *)
(* run; multi says a second touch point appeared since the gesture's touch *)
(* start, cancelled that a touch-cancel arrived since; armed says the last *)
(* handleTouchEnd found touchStart set, dx and dy are the displacement it  *)
(* computed and fired the direction it handed to move ("-" when it called  *)
(* no move).                                                               *)
(***************************************************************************)
NoGesture ==
    [ev |-> "none", multi |-> FALSE, cancelled |-> FALSE, armed |-> FALSE,
     dx |-> 0, dy |-> 0, fired |-> "-"]

(***************************************************************************)
(* startGame (lines 91-97), the mount effect and both buttons.  A run of   *)
(* the model ends at a restart: the game that follows is explored from the *)
(* new-game states of Init.                                                *)
(***************************************************************************)
StartGame ==
    /\ steps < MaxSteps
    /\ board' \in createInitialBoard
    /\ score' = 0
    /\ isGameOver' = FALSE
    /\ isWin' = FALSE
    /\ UNCHANGED <<bestScore, stored>>
    /\ last' = [NoLast EXCEPT !.op = "startGame", !.best0 = bestScore,
                              !.win0 = isWin, !.over0 = isGameOver]
    /\ steps' = MaxSteps
    /\ UNCHANGED touchVars

\* line 137 returning in the won state as well
moveBlockedOnceWon(over, win) == over \/ win

\* line 137: if (isGameOver && !isWin) return;
moveBlocked(over, win) == over /\ ~win

(***************************************************************************)
(* move(direction) (lines 136-204), one whole invocation.  The state       *)
(* setters called before an exception still take effect: React applies the *)
(* queued setIsWin(true) although the handler did not return.              *)
(***************************************************************************)
move(direction) ==
    LET grid0 == getGrid(board)
        numRotations == rotations(direction)
        rot == rotate(grid0, numRotations)
        merges == mergedValues(rot)
        base == [NoLast EXCEPT !.op = "move", !.dir = direction,
                               !.grid0 = grid0, !.score0 = score,
                               !.best0 = bestScore, !.win0 = isWin,
                               !.over0 = isGameOver]
    IN
    IF moveBlocked(isGameOver, isWin)
       THEN \* line 137
            /\ UNCHANGED <<board, score, bestScore, isGameOver, isWin, stored>>
            /\ last' = [base EXCEPT !.outcome = "rejected"]
       ELSE IF merges # <<>> /\ trackThrows(numRotations)
       THEN \* the first merge: lines 167-170 run, line 173 throws
            /\ isWin' = (isWin \/ reachesWin(merges[1]))
            /\ UNCHANGED <<board, score, bestScore, isGameOver, stored>>
            /\ last' = [base EXCEPT !.outcome = "threw", !.rot = rot,
                                    !.merges = <<merges[1]>>,
                                    !.add = merges[1]]
       ELSE LET rowsOut == slideGrid(rot)
                slid == rotate(rowsOut, (4 - numRotations) % 4)
                add == scoreToAdd(merges)
                win == \E k \in 1..Len(merges) : reachesWin(merges[k])
                newScore == score + add
                done == [base EXCEPT !.rot = rot, !.rowsOut = rowsOut,
                                     !.slid = slid, !.merges = merges,
                                     !.add = add]
            IN  /\ isWin' = (isWin \/ win)
                /\ IF wasMoved(rot)
                   THEN \E gridWithNewTile \in addRandomTile(slid) :
                          /\ board' = transformToTileObjects(gridWithNewTile)
                          /\ score' = newScore
                          /\ bestScore' = bestAfter(newScore, bestScore)
                          /\ stored' = storedAfter(newScore, bestScore, stored)
                          /\ isGameOver' =
                                (isGameOver \/ checkGameOver(gridWithNewTile))
                          /\ last' = [done EXCEPT !.outcome = "moved"]
                   ELSE /\ UNCHANGED <<board, score, bestScore, isGameOver,
                                       stored>>
                        /\ last' = [done EXCEPT !.outcome = "noop"]

\* handleKeyDown (lines 221-230) on a mapped key: one call of move
Move(direction) ==
    /\ steps < MaxSteps
    /\ steps' = steps + 1
    /\ move(direction)
    /\ UNCHANGED touchVars

MoveAny == \E direction \in Directions : Move(direction)

(***************************************************************************)
(* The touch handlers of the container (lines 237-257).  A touch point is  *)
(* a pair <<clientX, clientY>>; touchStart is the empty set for null and   *)
(* {point} otherwise.  fingers is e.touches.length as the browser reports  *)
(* it: the touch points on the screen.                                     *)
(***************************************************************************)
Abs(n) == IF n < 0 THEN -n ELSE n

Max(a, b) == IF a > b THEN a ELSE b

\* line 249: the literal 30
SWIPE_THRESHOLD == 30

\* the threshold applied to the length of the displacement
overThresholdLength(dx, dy) ==
    dx * dx + dy * dy > SWIPE_THRESHOLD * SWIPE_THRESHOLD

\* line 249: Math.max(absDx, absDy) > 30
overThreshold(dx, dy) == Max(Abs(dx), Abs(dy)) > SWIPE_THRESHOLD

\* line 250
swipeDirection(dx, dy) ==
    IF Abs(dx) > Abs(dy)
    THEN (IF dx > 0 THEN "right" ELSE "left")
    ELSE (IF dy > 0 THEN "down" ELSE "up")

\* the positions a touch point is reported at
TouchPoints == {<<0, 0>>, <<25, 25>>, <<31, 0>>, <<0, 31>>, <<30, 0>>}

MaxFingers == 2

MaxTouchEvents == 5

gameVars == <<board, score, bestScore, isGameOver, isWin, stored>>

\* handleTouchStart (lines 237-240): a further touch point lands
handleTouchStart ==
    /\ steps < MaxTouchEvents
    /\ fingers < MaxFingers
    /\ steps' = steps + 1
    /\ fingers' = fingers + 1
    /\ IF fingers + 1 > 1
       THEN \* line 238: return, touchStart is left as it is
            /\ UNCHANGED touchStart
            /\ gesture' = [gesture EXCEPT !.ev = "touchstart",
                                          !.multi = TRUE, !.armed = FALSE,
                                          !.dx = 0, !.dy = 0, !.fired = "-"]
       ELSE \E p \in TouchPoints :
                /\ touchStart' = {p}
                /\ gesture' = [NoGesture EXCEPT !.ev = "touchstart"]
    /\ UNCHANGED <<gameVars, last>>

\* handleTouchEnd (lines 242-254): a touch point is lifted at position p.
\* When move throws, line 253 is not reached and touchStart stays set.
handleTouchEnd ==
    /\ steps < MaxTouchEvents
    /\ fingers > 0
    /\ steps' = steps + 1
    /\ fingers' = fingers - 1
    /\ IF touchStart = {}
       THEN \* line 243
            /\ UNCHANGED <<gameVars, last, touchStart>>
            /\ gesture' = [gesture EXCEPT !.ev = "touchend", !.armed = FALSE,
                                          !.dx = 0, !.dy = 0, !.fired = "-"]
       ELSE \E p \in TouchPoints :
                LET start == CHOOSE q \in touchStart : TRUE
                    dx == p[1] - start[1]
                    dy == p[2] - start[2]
                    direction == swipeDirection(dx, dy)
                    seen == [gesture EXCEPT !.ev = "touchend", !.armed = TRUE,
                                            !.dx = dx, !.dy = dy]
                IN  IF overThreshold(dx, dy)
                    THEN /\ move(direction)
                         /\ touchStart' = IF last'.outcome = "threw"
                                          THEN touchStart ELSE {}
                         /\ gesture' = [seen EXCEPT !.fired = direction]
                    ELSE /\ UNCHANGED <<gameVars, last>>
                         /\ touchStart' = {}
                         /\ gesture' = [seen EXCEPT !.fired = "-"]

\* onTouchCancel (line 257): the browser takes some touch points away
handleTouchCancel ==
    /\ steps < MaxTouchEvents
    /\ fingers > 0
    /\ steps' = steps + 1
    /\ \E lost \in 1..fingers : fingers' = fingers - lost
    /\ touchStart' = {}
    /\ gesture' = [gesture EXCEPT !.ev = "touchcancel", !.cancelled = TRUE,
                                  !.armed = FALSE, !.dx = 0, !.dy = 0,
                                  !.fired = "-"]
    /\ UNCHANGED <<gameVars, last>>

Next == StartGame \/ MoveAny

InitFrom(sessions) ==
    \E s \in sessions :
        /\ board = transformToTileObjects(s.grid)
        /\ score = s.score
        /\ bestScore = s.bestScore
        /\ stored = s.stored
        /\ isWin = s.isWin
        /\ isGameOver = s.isGameOver
        /\ last = NoLast
        /\ steps = 0
        /\ touchStart = {}
        /\ fingers = 0
        /\ gesture = NoGesture

Init == InitFrom(Sessions)

Spec == Init /\ [][Next]_vars

(***************************************************************************)
(* The same App driven by touch events.  The sessions are the ones with a  *)
(* nearly full grid, where a move has few spawns to choose from.           *)
(***************************************************************************)
TouchSessions ==
    {PackedRows, BeforeLost, LostGame, BeforeWinVertical, WonGameOver}

InitTouch == InitFrom(TouchSessions)

NextTouch == handleTouchStart \/ handleTouchEnd \/ handleTouchCancel

SpecTouch == InitTouch /\ [][NextTouch]_vars

(***************************************************************************)
(* Properties                                                              *)
(***************************************************************************)
grid == getGrid(board)

\* the last handler was a move that ran its slide loop to the end
LoopDone == last.op = "move" /\ last.outcome \in {"noop", "moved"}

\* the last handler was a move that stored a new grid
GridChanged == last.op = "move" /\ last.outcome = "moved"

\* The non-zero cells of a row in order, by position: the k-th of them.
RefCompact(cells) ==
    LET nz == {i \in 1..Len(cells) : cells[i] # 0}
    IN  [k \in 1..Cardinality(nz) |->
            cells[CHOOSE i \in nz : Cardinality({j \in nz : j <= i}) = k]]

\* Merge-once on a compacted row of at most 4 tiles, case by case.
RefMerge(t) ==
    CASE Len(t) <= 1 -> t
      [] Len(t) = 2 -> IF t[1] = t[2] THEN <<2 * t[1]>> ELSE t
      [] Len(t) = 3 -> IF t[1] = t[2] THEN <<2 * t[1], t[3]>>
                       ELSE IF t[2] = t[3] THEN <<t[1], 2 * t[2]>>
                       ELSE t
      [] Len(t) = 4 -> IF t[1] = t[2]
                       THEN IF t[3] = t[4] THEN <<2 * t[1], 2 * t[3]>>
                            ELSE <<2 * t[1], t[3], t[4]>>
                       ELSE IF t[2] = t[3] THEN <<t[1], 2 * t[2], t[4]>>
                       ELSE IF t[3] = t[4] THEN <<t[1], t[2], 2 * t[3]>>
                       ELSE t

\* the reference left slide of a row of 4 cells
RefSlide(cells) ==
    LET m == RefMerge(RefCompact(cells))
    IN  [c \in Idx |-> IF c <= Len(m) THEN m[c] ELSE 0]

\* C1: every row that went through the slide loop of a move came out as the
\* reference says (zeros removed, the first of each adjacent equal pair
\* merged once, padded to 4); a row 2,2,2,2 came out 4,4,0,0.
C1_SlideMatchesReference ==
    LoopDone =>
        \A r \in Idx :
            /\ last.rowsOut[r] = RefSlide(last.rot[r])
            /\ last.rot[r] = <<2, 2, 2, 2>> => last.rowsOut[r] = <<4, 4, 0, 0>>

C1_Witness ==
    /\ GridChanged
    /\ \E r \in Idx : last.rot[r] = <<2, 2, 2, 2>> /\ last.rowsOut[r] = <<4, 4, 0, 0>>
    /\ \E r \in Idx : Len(RefCompact(last.rot[r])) = 3 /\ last.rowsOut[r][3] = 0

\* the cells of line k along the axis of a direction, listed from the edge
\* the direction names: row 1 for up, row 4 for down, column 1 for left,
\* column 4 for right
LineFromEdge(g, direction, k) ==
    CASE direction = "left" -> [j \in Idx |-> g[k][j]]
      [] direction = "right" -> [j \in Idx |-> g[k][TILE_COUNT + 1 - j]]
      [] direction = "up" -> [j \in Idx |-> g[j][k]]
      [] direction = "down" -> [j \in Idx |-> g[TILE_COUNT + 1 - j][k]]

\* no tile of the line lies behind an empty cell
PackedLine(line) ==
    \A j \in 1..(TILE_COUNT - 1) : line[j] = 0 => line[j + 1] = 0

\* C2: after the slide of move(d), rotated back, every line along d's axis
\* is packed against the edge d names.
C2_PackedTowardDirection ==
    LoopDone =>
        \A k \in Idx : PackedLine(LineFromEdge(last.slid, last.dir, k))

\* C3: after a move that changed the grid, the stored grid is the slid grid
\* with exactly one of its empty cells set to 2 or 4.
C3_ExactlyOneSpawn ==
    GridChanged =>
        /\ emptyCells(last.slid) # {}
        /\ \E rc \in emptyCells(last.slid) :
              /\ grid[rc[1]][rc[2]] \in {2, 4}
              /\ \A r \in Idx : \A c \in Idx :
                    <<r, c>> # rc => grid[r][c] = last.slid[r][c]

C3_Witness ==
    /\ GridChanged
    /\ Cardinality(emptyCells(last.slid)) = 1
    /\ emptyCells(grid) = {}
    /\ last.merges = <<>>

\* the pre-move grid of the fully packed example: full, every row strictly
\* decreasing from the left
PackedDecreasing(g) ==
    \A r \in Idx : \A c \in 1..(TILE_COUNT - 1) : g[r][c] > g[r][c + 1] /\ g[r][c + 1] > 0

\* C4: a move whose slide leaves every cell as it was changes nothing: grid,
\* score, best score, won flag and game-over flag are those before the move.
C4_NoOpMoveChangesNothing ==
    (LoopDone /\ last.slid = last.grid0) =>
        /\ grid = last.grid0
        /\ score = last.score0
        /\ bestScore = last.best0
        /\ isWin = last.win0
        /\ isGameOver = last.over0

C4_Witness ==
    /\ LoopDone
    /\ last.slid = last.grid0
    /\ last.dir = "left"
    /\ PackedDecreasing(last.grid0)

\* the sum of the doubled values of the merges of a compacted row of at most
\* 4 tiles, case by case
RefGain(t) ==
    CASE Len(t) <= 1 -> 0
      [] Len(t) = 2 -> IF t[1] = t[2] THEN 2 * t[1] ELSE 0
      [] Len(t) = 3 -> IF t[1] = t[2] THEN 2 * t[1]
                       ELSE IF t[2] = t[3] THEN 2 * t[2]
                       ELSE 0
      [] Len(t) = 4 -> IF t[1] = t[2]
                       THEN 2 * t[1] + (IF t[3] = t[4] THEN 2 * t[3] ELSE 0)
                       ELSE IF t[2] = t[3] THEN 2 * t[2]
                       ELSE IF t[3] = t[4] THEN 2 * t[3]
                       ELSE 0

RefMoveGain(rot) ==
    RefGain(RefCompact(rot[1])) + RefGain(RefCompact(rot[2]))
        + RefGain(RefCompact(rot[3])) + RefGain(RefCompact(rot[4]))

\* C5: a move that changed the grid added to the score the sum of the doubled
\* values of its merges, and no move lowers the score.
C5_ScoreAddsMergedValues ==
    /\ GridChanged => score = last.score0 + RefMoveGain(last.rot)
    /\ last.op = "move" => score >= last.score0

\* two 2s made a 4 and two 4s made an 8, twice each, in one move: 24 is added,
\* not the number of merges
C5_Witness ==
    /\ GridChanged
    /\ last.merges = <<4, 8, 4, 8>>
    /\ score = last.score0 + 24

Adjacent(a, b) ==
    \/ a[1] = b[1] /\ (a[2] = b[2] + 1 \/ b[2] = a[2] + 1)
    \/ a[2] = b[2] /\ (a[1] = b[1] + 1 \/ b[1] = a[1] + 1)

\* no empty cell and no two neighbouring cells equal
NoMoveLeft(g) ==
    /\ emptyCells(g) = {}
    /\ \A a \in Idx \X Idx : \A b \in Idx \X Idx :
          Adjacent(a, b) => g[a[1]][a[2]] # g[b[1]][b[2]]

\* C6: after a move that changed the grid, the game-over flag is set exactly
\* when the stored grid is full with no two neighbours equal.
C6_LostIffNoMoveLeft ==
    GridChanged => (isGameOver <=> NoMoveLeft(grid))

C6_Witness ==
    /\ GridChanged
    /\ isGameOver
    /\ ~last.over0
    /\ NoMoveLeft(grid)

MaxTile(g) ==
    CHOOSE v \in {g[r][c] : r \in Idx, c \in Idx} :
        \A r \in Idx : \A c \in Idx : g[r][c] <= v

\* C7: a move with a merge giving 2048 or more leaves the won flag set, and a
\* grid holding a tile of 2048 or more has the won flag set.
C7_WonWhenTile2048 ==
    /\ (last.op = "move" /\ \E i \in 1..Len(last.merges) : last.merges[i] >= 2048)
          => isWin
    /\ MaxTile(grid) >= 2048 => isWin

\* the move that made the first 2048 tile, smaller tiles left unmerged
C7_Witness ==
    /\ GridChanged
    /\ ~last.win0
    /\ isWin
    /\ \E i \in 1..Len(last.merges) : last.merges[i] = 2048
    /\ MaxTile(grid) = 2048

\* C8: move runs to completion: it never ends in an exception.
C8_MoveNeverThrows ==
    last.op = "move" => last.outcome # "threw"

WellFormed(n) == ~n.nan /\ n.val >= 0

\* C9: with a well-formed best score, no handler lowers it, a move whose new
\* score exceeds it raises it to that score, it is at least the score, and
\* restart leaves it as it was.
C9_BestScoreMonotone ==
    /\ WellFormed(bestScore) => bestScore.val >= score
    /\ (last.op # "none" /\ WellFormed(last.best0)) =>
          /\ WellFormed(bestScore)
          /\ bestScore.val >= last.best0.val
          /\ (GridChanged /\ score > last.best0.val) => bestScore.val = score
          /\ last.op = "startGame" => bestScore = last.best0

C9_Witness ==
    /\ GridChanged
    /\ WellFormed(last.best0)
    /\ score > last.best0.val
    /\ bestScore.val = score

\* C10: restart leaves both flags cleared, score 0 and a grid of exactly two
\* tiles, each 2 or 4, in distinct cells.
C10_RestartFreshGame ==
    last.op = "startGame" =>
        /\ ~isWin
        /\ ~isGameOver
        /\ score = 0
        /\ Cardinality((Idx \X Idx) \ emptyCells(grid)) = 2
        /\ Len(board) = 2
        /\ \A i \in 1..Len(board) : board[i].value \in {2, 4}

\* a restart of a lost game
C10_Witness ==
    /\ last.op = "startGame"
    /\ last.over0
    /\ ~last.win0
    /\ ~isGameOver
    /\ score = 0


(***************************************************************************)
(* C11: a swipe gesture during which a second touch point appears, or that *)
(* a touch-cancel aborts, never triggers a move: no touch end hands a      *)
(* direction to move once the gesture has seen a second touch start or a   *)
(* touch-cancel.                                                           *)
(***************************************************************************)
C11_MultiTouchNeverMoves ==
    (gesture.ev = "touchend" /\ gesture.fired # "-")
        => (~gesture.multi /\ ~gesture.cancelled)

(***************************************************************************)
(* C12: when the persisted best score is absent or unparseable, the        *)
(* session starts with best score 0, and the first move that reaches a     *)
(* positive score raises the best score to that score and writes it to the *)
(* store.                                                                  *)
(***************************************************************************)
SlotAbsentOrUnparseable == stored = {} \/ InitialBestScore(stored).nan

C12_MalformedBestStartsAtZero ==
    /\ (last.op = "none" /\ SlotAbsentOrUnparseable) => bestScore = Num(0)
    /\ (/\ GridChanged
        /\ last.score0 = 0
        /\ score > 0
        /\ (last.best0.nan \/ last.best0 = Num(0)))
           => (bestScore = Num(score) /\ stored = {toString(score)})

(***************************************************************************)
(* C13: the slide/merge of a move applied a second time in the same        *)
(* direction, with no spawn in between, changes nothing and adds nothing   *)
(* to the score.  SlideAgain runs lines 160-188 on the grid the last move  *)
(* slid, before its spawn.                                                 *)
(***************************************************************************)
SlideAgain ==
    LET numRotations == rotations(last.dir)
        rot == rotate(last.slid, numRotations)
    IN  [grid |-> rotate(slideGrid(rot), (4 - numRotations) % 4),
         add |-> scoreToAdd(mergedValues(rot))]

C13_SlideTwiceIsIdempotent ==
    LoopDone => (SlideAgain.grid = last.slid /\ SlideAgain.add = 0)

\* no two equal tiles next to each other along the axis of the direction
NoEqualNeighboursAlong(g, direction) ==
    \A r \in Idx : \A c \in 1..(TILE_COUNT - 1) :
        IF direction \in {"left", "right"}
        THEN g[r][c] = 0 \/ g[r][c] # g[r][c + 1]
        ELSE g[c][r] = 0 \/ g[c][r] # g[c + 1][r]

\* C13 amended: the second application changes nothing and adds nothing when
\* the first one's result has no two equal tiles next to each other along
\* the axis of the move; when it has, under 'left', the second application
\* merges them, changing the grid and adding to the score.
C13_SlideTwiceWithoutEqualNeighbours ==
    /\ (LoopDone /\ NoEqualNeighboursAlong(last.slid, last.dir))
          => (SlideAgain.grid = last.slid /\ SlideAgain.add = 0)
    /\ (LoopDone /\ last.dir = "left"
                 /\ ~NoEqualNeighboursAlong(last.slid, last.dir))
          => (SlideAgain.grid # last.slid /\ SlideAgain.add > 0)

C13_Witness ==
    /\ LoopDone
    /\ last.merges # <<>>
    /\ NoEqualNeighboursAlong(last.slid, last.dir)
    /\ SlideAgain.grid = last.slid
    /\ SlideAgain.add = 0

(***************************************************************************)
(* C14: for the grid g of every state and every count in 0..3,             *)
(* rotate(rotate(g, count), (4 - count) mod 4) = g; and a move whose slide *)
(* loop changed no row hands back, after its rotate-back of line 188, the  *)
(* grid it started from, in each direction.                                *)
(***************************************************************************)
C14_RotateRoundTrip ==
    /\ \A count \in 0..3 :
          rotate(rotate(grid, count), (4 - count) % 4) = grid
    /\ (LoopDone /\ last.rowsOut = last.rot) => last.slid = last.grid0
    /\ LoopDone => rotate(last.slid, rotations(last.dir)) = last.rowsOut

\* a move 'up' that slid nothing: its rotated grid differs from the grid and
\* the rotate-back returned the grid
C14_Witness ==
    /\ LoopDone
    /\ last.dir = "up"
    /\ last.rot # last.grid0
    /\ last.rowsOut = last.rot
    /\ last.slid = last.grid0
    /\ grid = last.grid0

(***************************************************************************)
(* C15: in every state that is in progress (neither won nor lost), the     *)
(* grid has at least one empty cell.                                       *)
(***************************************************************************)
C15_InProgressHasEmptyCell ==
    (~isWin /\ ~isGameOver) => emptyCells(grid) # {}

HasEqualNeighbours(g) ==
    \E a \in Idx \X Idx : \E b \in Idx \X Idx :
        Adjacent(a, b) /\ g[a[1]][a[2]] = g[b[1]][b[2]]

\* C15 amended: in every state that is in progress, the grid has an empty
\* cell or two equal tiles next to each other in a row or a column.
C15_InProgressHasMoveLeft ==
    (~isWin /\ ~isGameOver)
        => (emptyCells(grid) # {} \/ HasEqualNeighbours(grid))

\* a move filled the grid and the game is still in progress
C15_Witness ==
    /\ GridChanged
    /\ ~isWin
    /\ ~isGameOver
    /\ emptyCells(grid) = {}
    /\ HasEqualNeighbours(grid)

(***************************************************************************)
(* C16: a swipe with displacement (dx, dy) triggers exactly one move if    *)
(* and only if sqrt(dx^2 + dy^2) exceeds 30, in the direction along the    *)
(* axis of greater absolute displacement (right/left by the sign of dx,    *)
(* down/up by the sign of dy); at or below the threshold it triggers none. *)
(* SwipeEnded: the last touch handler was a handleTouchEnd that found      *)
(* touchStart set.                                                         *)
(***************************************************************************)
SwipeEnded == gesture.ev = "touchend" /\ gesture.armed

C16_SwipeByLength ==
    SwipeEnded =>
        /\ (gesture.fired # "-")
              <=> (gesture.dx * gesture.dx + gesture.dy * gesture.dy > 30 * 30)
        /\ (gesture.fired # "-" /\ Abs(gesture.dx) > Abs(gesture.dy))
              => gesture.fired = (IF gesture.dx > 0 THEN "right" ELSE "left")
        /\ (gesture.fired # "-" /\ Abs(gesture.dy) > Abs(gesture.dx))
              => gesture.fired = (IF gesture.dy > 0 THEN "down" ELSE "up")

\* C16 amended: a swipe triggers exactly one move if and only if the larger
\* of |dx| and |dy| exceeds 30: right or left by the sign of dx when |dx| is
\* larger than |dy|, otherwise (a tie included) down or up by the sign of dy.
C16_SwipeByLargerAxis ==
    SwipeEnded =>
        /\ gesture.fired = "right"
              <=> (gesture.dx > 30 /\ gesture.dx > Abs(gesture.dy))
        /\ gesture.fired = "left"
              <=> (-gesture.dx > 30 /\ -gesture.dx > Abs(gesture.dy))
        /\ gesture.fired = "down"
              <=> (gesture.dy > 30 /\ gesture.dy >= Abs(gesture.dx))
        /\ gesture.fired = "up"
              <=> (-gesture.dy > 30 /\ -gesture.dy >= Abs(gesture.dx))
        /\ gesture.fired = "-"
              <=> (Abs(gesture.dx) <= 30 /\ Abs(gesture.dy) <= 30)
        /\ gesture.fired # "-"
              => (last.op = "move" /\ last.dir = gesture.fired)

\* a single-touch swipe of length above 30 with both axes below it: no move
C16_Witness ==
    /\ SwipeEnded
    /\ ~gesture.multi
    /\ gesture.dx = 25
    /\ gesture.dy = 25
    /\ gesture.fired = "-"
    /\ last.op = "none"
    /\ touchStart = {}

(***************************************************************************)
(* C17: won and lost are terminal for scoring: a move made once the game   *)
(* is won or lost leaves the score as it was.                              *)
(***************************************************************************)
C17_NoScoringOnceWonOrLost ==
    (last.op = "move" /\ (last.win0 \/ last.over0)) => score = last.score0

\* C17 amended: a move made in the lost state (game over, not won) is
\* rejected and changes neither the score nor the grid; a move made in the
\* won state is never rejected, never lowers the score, and raises it only
\* by changing the grid.
C17_LostIsTerminalWonKeepsScoring ==
    /\ (last.op = "move" /\ last.over0 /\ ~last.win0)
          => /\ last.outcome = "rejected"
             /\ score = last.score0
             /\ grid = last.grid0
    /\ (last.op = "move" /\ last.win0)
          => /\ last.outcome # "rejected"
             /\ score >= last.score0
             /\ (score > last.score0 => GridChanged)
             /\ (GridChanged => score = last.score0 + SumSeq(last.merges))

\* a move in the won state changed the grid and raised the score
C17_Witness ==
    /\ GridChanged
    /\ last.win0
    /\ grid # last.grid0
    /\ score > last.score0

(***************************************************************************)
(* C18: the status is exactly one of in-progress, won, lost: the won flag  *)
(* and the game-over flag are never both set.                              *)
(***************************************************************************)
C18_NeverWonAndGameOver == ~(isWin /\ isGameOver)

\* C18 amended: both flags are set exactly when a won game is on a grid
\* with no move left, a restart clears both, and a move made with both set
\* is played as in the won state: not rejected, and changing nothing.
C18_WonAndGameOverOnlyWhenStuck ==
    /\ (isWin /\ isGameOver) => NoMoveLeft(grid)
    /\ (isWin /\ NoMoveLeft(grid)) => isGameOver
    /\ last.op = "startGame" => (~isWin /\ ~isGameOver)
    /\ (last.op = "move" /\ last.win0 /\ last.over0)
          => (last.outcome = "noop" /\ isWin /\ isGameOver)

\* a move in the won state filled the grid and set the game-over flag too
C18_Witness ==
    /\ GridChanged
    /\ last.win0
    /\ ~last.over0
    /\ isWin
    /\ isGameOver

(***************************************************************************)
(* C19: in every state the grid is 4x4 and every cell is 0 or a power of   *)
(* two >= 2; the board holds one tile per non-empty cell, inside the grid. *)
(***************************************************************************)
PowersOfTwo == {2 ^ k : k \in 1..17}

C19_CellsArePowersOfTwo ==
    /\ DOMAIN grid = 1..4
    /\ \A r \in DOMAIN grid :
          /\ DOMAIN grid[r] = 1..4
          /\ \A c \in DOMAIN grid[r] : grid[r][c] \in {0} \cup PowersOfTwo
    /\ \A i \in 1..Len(board) :
          /\ board[i].x \in 0..3
          /\ board[i].y \in 0..3
          /\ board[i].value \in PowersOfTwo
          /\ \A j \in 1..Len(board) :
                (board[j].x = board[i].x /\ board[j].y = board[i].y) => j = i

\* a move merged two 2048 tiles and spawned a tile
C19_Witness ==
    /\ GridChanged
    /\ 4096 \in {last.merges[k] : k \in 1..Len(last.merges)}
    /\ MaxTile(grid) = 4096
    /\ Len(board) = Cardinality((Idx \X Idx) \ emptyCells(last.slid)) + 1

(***************************************************************************)
(* C20: every invocation of move either applies all of its effects or      *)
(* mutates nothing: a move that leaves the grid and the score as they were *)
(* leaves the won flag, the game-over flag and the best score as they were.*)
(***************************************************************************)
C20_MoveIsAllOrNothing ==
    (last.op = "move" /\ grid = last.grid0 /\ score = last.score0)
        => /\ isWin = last.win0
           /\ isGameOver = last.over0
           /\ bestScore = last.best0

(***************************************************************************)
(* C21: game-over detection agrees with the move engine: when the          *)
(* game-over flag is set, move in each of the four directions leaves the   *)
(* grid unchanged; when the game is in progress (neither won nor lost),    *)
(* move in at least one direction changes the grid.                        *)
(* moveChangesGrid: move(direction), called in a state with grid g and     *)
(* flags over and win, reaches setBoard (line 193): it is not rejected at  *)
(* line 137, does not throw at line 173, and finds moved set at line 190.  *)
(***************************************************************************)
moveChangesGrid(g, over, win, direction) ==
    LET numRotations == rotations(direction)
        rot == rotate(g, numRotations)
    IN  /\ ~moveBlocked(over, win)
        /\ ~(mergedValues(rot) # <<>> /\ trackThrows(numRotations))
        /\ wasMoved(rot)

C21_GameOverAgreesWithMoves ==
    /\ isGameOver
          => \A direction \in Directions :
                ~moveChangesGrid(grid, isGameOver, isWin, direction)
    /\ (~isWin /\ ~isGameOver)
          => \E direction \in Directions :
                moveChangesGrid(grid, isGameOver, isWin, direction)

====
